---- MODULE Spec2Model ----
(***************************************************************************)
(* A model of the Cursor/OpenRouter proxy (src/proxy.go).                  *)
(*                                                                         *)
(* Spec       the HTTP handler proxyHandler serving one connection, next   *)
(*            to a second connection that runs POST /v1/config; the two    *)
(*            share the global activeConfig, which the code reads and      *)
(*            writes without any lock.                                     *)
(*                                                                         *)
(* SeqSpec    the same two connections taking turns.                       *)
(* RelaySpec  handleStreamingResponse: read loop and heartbeat goroutine.  *)
(* ResponseSpec, PoolSpec, ConvertSpec, ToolsSpec                          *)
(*            handleRegularResponse, the buffer pools under readResponse,  *)
(*            convertMessages and the tools step, each on its own.         *)
(*                                                                         *)
(* Strings are sequences of one-character strings, so that HasPrefix,      *)
(* TrimPrefix and a torn read of a Go string header are computed and not   *)
(* looked up.  Temperatures are tenths (17 is 1.7).                        *)
(***************************************************************************)
EXTENDS Integers, Sequences, FiniteSets, TLC

VARIABLES
    activeConfig,   \* the global Config; model is the string header {data, len}
    cfg,            \* the connection running handleConfigRequest
    pc,             \* where proxyHandler stands on the other connection
    request,        \* the inbound *http.Request of that connection
    chatReq,        \* the parsed ChatRequest (zero value until line 408)
    openRouterReq,  \* the OpenRouterRequest under construction
    provider,       \* the X-Model-Provider header of proxyReq ("" when unset)
    upstream,       \* the request in flight to upstream (<<>> when none)
    forwarded,      \* how many upstream calls the current request has caused
    upstreamReply,  \* the upstream response the handler is working on
    response,       \* what has been written to the client
    \* handleStreamingResponse (RelaySpec)
    rpc,            \* where the read loop stands ("none" outside the relay)
    hpc,            \* where the heartbeat goroutine stands
    line,           \* the line ReadBytes returned last
    upLines,        \* the complete lines upstream has delivered so far
    upEOF,          \* upstream's body has reported io.EOF
    ctxDone,        \* ctx of line 618 is cancelled
    clientGone,     \* the client has closed its connection
    out,            \* the chunks written to the ResponseWriter, in order
    flushed,        \* how many of them a Flush has pushed to the client
    ticks,          \* how many 15-second ticks have fired
    writes,         \* how many calls of w.Write have been made
    writeFailed,    \* a call of w.Write has returned an error
    garbled,        \* two calls of w.Write / Flush have overlapped
    \* readResponse and its callers on two connections (PoolSpec)
    smallBufferPool, \* the buffers sync.Pool holds for small responses
    largeBufferPool, \* the buffers sync.Pool holds for large responses
    buffers,        \* every *bytes.Buffer: backing bytes, length, capacity class
    readers,        \* the two requests: position, response body, buffer, result
    \* convertMessages (ConvertSpec)
    conv,           \* one call: position, the two slices and the arrays behind them
    \* proxyHandler's tools step (ToolsSpec)
    tl              \* position, the request's tool fields, the upstream request's

connVars == <<pc, request, chatReq, openRouterReq, provider, upstream,
              forwarded, upstreamReply, response>>

relayVars == <<rpc, hpc, line, upLines, upEOF, ctxDone, clientGone, out, flushed,
               ticks, writes, writeFailed, garbled>>

poolVars == <<smallBufferPool, largeBufferPool, buffers, readers>>

vars == <<activeConfig, cfg, connVars, relayVars, poolVars, conv, tl>>

----------------------------------------------------------------------------
(* Strings *)

HasPrefix(s, p) == Len(s) >= Len(p) /\ SubSeq(s, 1, Len(p)) = p

TrimPrefix(s, p) == IF HasPrefix(s, p) THEN SubSeq(s, Len(p) + 1, Len(s)) ELSE s

HasSuffix(s, p) ==
    Len(s) >= Len(p) /\ SubSeq(s, Len(s) - Len(p) + 1, Len(s)) = p

IsSpace(c) == c \in {" ", "\t", "\n", "\r"}

RECURSIVE TrimLeft(_)
TrimLeft(s) == IF s # <<>> /\ IsSpace(Head(s)) THEN TrimLeft(Tail(s)) ELSE s

RECURSIVE TrimRight(_)
TrimRight(s) ==
    IF s # <<>> /\ IsSpace(s[Len(s)])
    THEN TrimRight(SubSeq(s, 1, Len(s) - 1))
    ELSE s

TrimSpace(s) == TrimRight(TrimLeft(s))

\* The bytes a string header (data, len) denotes.  A header whose len exceeds
\* its backing array reads the bytes that follow it in memory: "?".
StringOf(hdr) ==
    [i \in 1..hdr.len |-> IF i <= Len(hdr.data) THEN hdr.data[i] ELSE "?"]

Header(s) == [data |-> s, len |-> Len(s)]

cursorMockedModel == <<"g","p","t","-","4","o">>
openRouterModel == <<"o","p","e","n","a","i","/","g","p","t","-","4","o">>
openRouterEndpoint ==
    <<"h","t","t","p","s",":","/","/","o","p","e","n","r","o","u","t","e","r",
      ".","a","i","/","a","p","i","/","v","1">>

MistralPrefix == <<"m","i","s","t","r","a","l","a","i","/">>
GooglePrefix == <<"g","o","o","g","l","e","/">>
V1Prefix == <<"/","v","1","/">>
BearerPrefix == <<"B","e","a","r","e","r"," ">>
SkPrefix == <<"s","k","-">>
Slash == <<"/">>

\* Inputs: model ids, paths, Authorization headers.
GoogleModel == <<"g","o","o","g","l","e","/","g">>
MistralModel == <<"m","i","s","t","r","a","l","a","i","/","m">>
OtherModel == <<"g","p","t","-","3">>

ConfigPath == <<"/","v","1","/","c","o","n","f","i","g">>
ModelsPath == <<"/","v","1","/","m","o","d","e","l","s">>
ChatPath == <<"/","v","1","/","c","h","a","t","/","c","o","m","p","l","e","t","i","o","n","s">>
EmbedPath == <<"/","v","1","/","e","m","b">>
HealthPath == <<"/","h","e","a","l","t","h">>
BarePath == <<"/","v","1">>

NoAuth == <<>>
BasicAuth == <<"B","a","s","i","c"," ","s","k","-","x">>
BearerOther == <<"B","e","a","r","e","r"," ","k","e","y">>
BearerSk == <<"B","e","a","r","e","r"," ","s","k","-","x">>
BearerSkPadded == <<"B","e","a","r","e","r"," "," ","s","k","-","x">>

\* The key init() accepted (prefix sk-or-, 32 bytes or more); it is only
\* passed on, so it stays one opaque value.
StartupKey == "sk-or-0123456789abcdef0123456789"

Contains(s, c) == \E i \in 1..Len(s) : s[i] = c

----------------------------------------------------------------------------
(* init(): the Runtime Configuration Store after a successful start *)

\* OPENROUTER_MODEL as the environment gives it (<<>> is unset).
EnvModels == {<<>>, MistralModel, cursorMockedModel}

\* The environment's model taken as it is, unset or not.
DefaultModelUnset(env) == env

\* Lines 118-124: the default when unset, fatal without a provider prefix.
DefaultModel(env) == IF env = <<>> THEN openRouterModel ELSE env

InitSucceeds(env) == env = <<>> \/ Contains(env, "/")

InitConfig(env) ==
    [endpoint |-> openRouterEndpoint,
     model    |-> Header(DefaultModel(env)),
     apiKey   |-> StartupKey]

\* One read of activeConfig.model.  The two words of the header are loaded
\* without synchronisation; while a store is half done the read is torn.
LoadModel == StringOf(activeConfig.model)

----------------------------------------------------------------------------
(* handleConfigRequest: POST /v1/config on its own connection *)

\* Bodies: undecodable, {} and {"model": m}.
UpdateModels == {openRouterModel, GoogleModel, MistralModel, cursorMockedModel}

ConfigBodies ==
    {[json |-> FALSE, hasModel |-> FALSE, model |-> <<>>],
     [json |-> TRUE, hasModel |-> FALSE, model |-> <<>>],
     [json |-> TRUE, hasModel |-> TRUE, model |-> <<>>]}
    \cup {[json |-> TRUE, hasModel |-> TRUE, model |-> m] : m \in UpdateModels}

\* json.Decode into struct{Model string}: a missing field is the zero value.
DecodeConfig(body) == IF body.hasModel THEN body.model ELSE <<>>

\* The dispatch without the configuration routes: their requests go on to
\* the authentication check like any other under /v1/.
DispatchBehindAuth(method, path) ==
    IF method = "OPTIONS" THEN "options"
    ELSE IF path = ModelsPath /\ method = "GET" THEN "getModels"
    ELSE IF ~HasPrefix(path, V1Prefix) THEN "notFound"
    ELSE "api"

\* Lines 350-380: the dispatch on method and path, before any header or body
\* is looked at.
Dispatch(method, path) ==
    IF method = "OPTIONS" THEN "options"
    ELSE IF path = ConfigPath /\ method = "GET" THEN "getConfig"
    ELSE IF path = ModelsPath /\ method = "GET" THEN "getModels"
    ELSE IF path = ConfigPath /\ method = "POST" THEN "postConfig"
    ELSE IF ~HasPrefix(path, V1Prefix) THEN "notFound"
    ELSE "api"

\* The Authorization headers POST /v1/config is sent with, and the one it
\* is sent with while the other connection is busy too.
ConfigAuths == {NoAuth, BearerSk}
FewConfigAuths == {NoAuth}

\* Every decoded model is let through.
ValidUpdateAny(model) == TRUE

\* Line 892: the only validation of an update.
ValidUpdate(model) == model # <<>>

NoConfigBody == [json |-> FALSE, hasModel |-> FALSE, model |-> <<>>]

\* The connection's handler: where it stands, the Authorization header and
\* the body it was sent, the model it decoded, what it answered, and the
\* model of the latest update it answered 200 (<<>> while there is none).
CfgIdle ==
    [pc |-> "idle", auth |-> <<>>, body |-> NoConfigBody, model |-> <<>>,
     status |-> 0, reply |-> <<>>, last |-> <<>>]

\* Lines 370-373 and 877-895: proxyHandler hands the request over, then
\* decode and validate; nothing shared is touched.
CfgReceive(auth, body) ==
    /\ cfg.pc \in {"idle", "done"}
    /\ Dispatch("POST", ConfigPath) = "postConfig"
    /\ IF ~body.json \/ ~ValidUpdate(DecodeConfig(body))
       THEN cfg' = [cfg EXCEPT !.pc = "done", !.auth = auth, !.body = body,
                               !.model = <<>>, !.status = 400, !.reply = <<>>]
       ELSE cfg' = [cfg EXCEPT !.pc = "store", !.auth = auth, !.body = body,
                               !.model = DecodeConfig(body),
                               !.status = 0, !.reply = <<>>]
    /\ UNCHANGED <<tl, conv, poolVars, activeConfig, connVars, relayVars>>

\* Line 897, first word of the string header (either word may go first).
CfgStoreFirst(word) ==
    /\ cfg.pc = "store"
    /\ activeConfig' =
         [activeConfig EXCEPT !.model =
            IF word = "data"
            THEN [data |-> cfg.model, len |-> @.len]
            ELSE [data |-> @.data, len |-> Len(cfg.model)]]
    /\ cfg' = [cfg EXCEPT !.pc = IF word = "data" THEN "storeLen" ELSE "storeData"]
    /\ UNCHANGED <<tl, conv, poolVars, connVars, relayVars>>

\* Line 897, second word.
CfgStoreSecond ==
    /\ cfg.pc \in {"storeLen", "storeData"}
    /\ activeConfig' = [activeConfig EXCEPT !.model = Header(cfg.model)]
    /\ cfg' = [cfg EXCEPT !.pc = "reply"]
    /\ UNCHANGED <<tl, conv, poolVars, connVars, relayVars>>

\* Lines 900-904: the reply reads activeConfig.model again.
CfgReply ==
    /\ cfg.pc = "reply"
    /\ cfg' = [cfg EXCEPT !.pc = "done", !.status = 200, !.reply = LoadModel,
                          !.last = cfg.model]
    /\ UNCHANGED <<tl, conv, poolVars, activeConfig, connVars, relayVars>>

----------------------------------------------------------------------------
(* proxyHandler: inbound requests *)

\* An optional JSON number: a nil pointer in ChatRequest.
Nil == [set |-> FALSE, v |-> 0]
Some(x) == [set |-> TRUE, v |-> x]

\* Temperatures in tenths; 1.0 is the ceiling of lines 440 and 448.
TempCeiling == 10
Temperatures == {0, 7, 17}
MaxTokenCounts == {0, 256}

OptOf(S) == {Nil} \cup {Some(x) : x \in S}

NoBody ==
    [json |-> FALSE, model |-> <<>>, stream |-> FALSE,
     temperature |-> Nil, max_tokens |-> Nil]

\* Request bodies: undecodable; a foreign or missing model id; the mocked id
\* with the optional numbers.
ForeignBodies ==
    {NoBody} \cup {[NoBody EXCEPT !.json = TRUE, !.model = m] : m \in {OtherModel, <<>>}}

MockedBody(s, t, k) ==
    [json |-> TRUE, model |-> cursorMockedModel, stream |-> s,
     temperature |-> t, max_tokens |-> k]

AllMockedBodies ==
    {MockedBody(s, t, k) :
        s \in BOOLEAN, t \in OptOf(Temperatures), k \in OptOf(MaxTokenCounts)}

FewMockedBodies ==
    {MockedBody(FALSE, Nil, Nil), MockedBody(FALSE, Some(17), Some(256)),
     MockedBody(TRUE, Some(0), Some(0))}

AuthHeaders == {NoAuth, BasicAuth, BearerOther, BearerSk, BearerSkPadded}

Line(m, p) == [method |-> m, path |-> p]

\* Request lines without a body.  POST /v1/config runs on the configuration
\* connection (CfgReceive).
PlainLines ==
    [method : {"GET", "POST", "OPTIONS"},
     path : {ConfigPath, ModelsPath, ChatPath, EmbedPath, HealthPath, BarePath}]
    \ {Line("POST", ConfigPath)}

Req(l, a, b) == [method |-> l.method, path |-> l.path, auth |-> a, body |-> b]

PlainRequests == {Req(l, a, NoBody) : l \in PlainLines, a \in AuthHeaders}

\* Every request of the bounded alphabet.
AllRequests ==
    PlainRequests
    \cup {Req(l, a, b) : l \in {Line("POST", ChatPath), Line("POST", EmbedPath)},
                         a \in AuthHeaders, b \in ForeignBodies \cup AllMockedBodies}

\* The requests served while the configuration connection is busy too.
Requests ==
    PlainRequests
    \cup {Req(Line("POST", ChatPath), a, b) :
            a \in {NoAuth, BearerSk}, b \in ForeignBodies \cup FewMockedBodies}
    \cup {Req(Line("POST", EmbedPath), BearerSkPadded, MockedBody(FALSE, Some(7), Nil))}

NoRequest == [method |-> "", path |-> <<>>, auth |-> <<>>, body |-> NoBody]

\* json.Unmarshal into ChatRequest (lines 399-413).
ZeroChatReq ==
    [Model |-> <<>>, Stream |-> FALSE, Temperature |-> Nil, MaxTokens |-> Nil]

ParseChat(body) ==
    [Model |-> body.model, Stream |-> body.stream,
     Temperature |-> body.temperature, MaxTokens |-> body.max_tokens]

ZeroOpenRouterReq ==
    [Model |-> <<>>, Stream |-> FALSE, Temperature |-> 0, MaxTokens |-> 0]

\* Any Bearer header is let through.
AuthorizedAnyBearer(auth) == HasPrefix(auth, BearerPrefix)

\* Lines 382-396: the Authorization header has the accepted shape.
Authorized(auth) ==
    /\ HasPrefix(auth, BearerPrefix)
    /\ HasPrefix(TrimSpace(TrimPrefix(auth, BearerPrefix)), SkPrefix)

\* Any named model is let through.
SupportedModelNonEmpty(model) == model # <<>>

\* Line 417: the only model id a client may name.
SupportedModel(model) == model = cursorMockedModel

\* Lines 350-426, in the order of the code: where a request is decided.
Route(r) ==
    IF Dispatch(r.method, r.path) # "api" THEN Dispatch(r.method, r.path)
    ELSE IF ~Authorized(r.auth) THEN "unauthorized"
    ELSE IF ~r.body.json THEN "invalidJSON"
    ELSE IF ~SupportedModel(r.body.model) THEN "unsupportedModel"
    ELSE "rewrite"

----------------------------------------------------------------------------
(* Upstream replies and handleRegularResponse *)

MaxChoices == 2
MaxToolCalls == 2

RECURSIVE SeqsUpTo(_, _)
SeqsUpTo(S, n) ==
    IF n = 0 THEN {<<>>}
    ELSE LET shorter == SeqsUpTo(S, n - 1)
         IN shorter \cup {Append(q, x) : q \in {t \in shorter : Len(t) = n - 1}, x \in S}

RECURSIVE SelectSeq2(_, _)
SelectSeq2(q, keep) ==
    IF q = <<>> THEN <<>>
    ELSE IF keep[1] THEN <<Head(q)>> \o SelectSeq2(Tail(q), Tail(keep))
    ELSE SelectSeq2(Tail(q), Tail(keep))

\* A ToolCall of the j-th place of a message; its id tells the places apart.
ToolCallAt(j, name) ==
    [ID |-> j, Type |-> "function",
     Function |-> [Name |-> name, Arguments |-> "{}"]]

ToolCallsOf(names) == [j \in 1..Len(names) |-> ToolCallAt(j, names[j])]

FunctionNames == {"", "f"}

AssistantMessage(names) ==
    [Role |-> "assistant", Content |-> "hi", ToolCalls |-> ToolCallsOf(names),
     ToolCallID |-> "", Name |-> ""]

\* The index and the finish reason upstream gives a choice; the index need
\* not be the choice's place in the list.
ChoiceTags ==
    {[Index |-> 0, FinishReason |-> "stop"],
     [Index |-> 0, FinishReason |-> "tool_calls"],
     [Index |-> 1, FinishReason |-> "stop"]}

UpstreamChoices ==
    {[Index |-> t.Index, Message |-> AssistantMessage(names),
      FinishReason |-> t.FinishReason] :
        t \in ChoiceTags, names \in SeqsUpTo(FunctionNames, MaxToolCalls)}

NoUsage == [PromptTokens |-> 0, CompletionTokens |-> 0, TotalTokens |-> 0]
SomeUsage == [PromptTokens |-> 3, CompletionTokens |-> 5, TotalTokens |-> 8]

NoError == [set |-> FALSE, Message |-> "", Type |-> "", Code |-> 0]

\* The struct json.Unmarshal fills at lines 697-724.
ZeroOpenRouterResp ==
    [ID |-> "", Created |-> 0, Model |-> <<>>, Choices |-> <<>>,
     Usage |-> NoUsage, Error |-> NoError]

ResponseHeads ==
    {[ZeroOpenRouterResp EXCEPT !.Model = GoogleModel],
     [ZeroOpenRouterResp EXCEPT !.ID = "gen-1", !.Created = 1700,
                                !.Model = openRouterModel, !.Usage = SomeUsage]}

UpstreamErrors ==
    {[set |-> TRUE, Message |-> "rate limited", Type |-> "rate", Code |-> c] :
        c \in {0, 429}}

\* What upstream may answer: a transport failure, or a status with a body
\* that parses or not.
NoReply ==
    [err |-> FALSE, status |-> 0, read |-> TRUE, json |-> FALSE,
     parsed |-> ZeroOpenRouterResp]

Completions(choiceLists) ==
    {[err |-> FALSE, status |-> 200, read |-> TRUE, json |-> TRUE,
      parsed |-> [h EXCEPT !.Choices = c]] :
        h \in ResponseHeads, c \in choiceLists}

ErrorBodies ==
    {[err |-> FALSE, status |-> 200, read |-> TRUE, json |-> TRUE,
      parsed |-> [ZeroOpenRouterResp EXCEPT !.Error = e]] : e \in UpstreamErrors}

Unparsable == [NoReply EXCEPT !.status = 200]

ZeroCompletion ==
    [ID |-> "", Object |-> "", Created |-> 0, Model |-> <<>>, Choices |-> <<>>,
     Usage |-> NoUsage]

\* Lines 774-784: the loop appends every named tool call to the list the
\* choice's message was copied with at line 770.
KeptToolCalls(calls) ==
    SelectSeq2(calls, [j \in 1..Len(calls) |-> calls[j].Function.Name # ""])

ClientToolCalls(calls) ==
    IF Len(calls) > 0 THEN calls \o KeptToolCalls(calls) ELSE calls

\* Lines 763-785.
ClientChoice(choice) ==
    [Index |-> choice.Index,
     Message |-> [choice.Message EXCEPT !.ToolCalls = ClientToolCalls(@)],
     FinishReason |-> choice.FinishReason]

\* The conversion with upstream's model echoed to the client.
OpenAIRespEcho(r) ==
    [ID |-> r.ID, Object |-> "chat.completion", Created |-> r.Created,
     Model |-> r.Model,
     Choices |-> [i \in 1..Len(r.Choices) |-> ClientChoice(r.Choices[i])],
     Usage |-> r.Usage]

\* Lines 733-785.
OpenAIResp(r) ==
    [ID |-> r.ID, Object |-> "chat.completion", Created |-> r.Created,
     Model |-> cursorMockedModel,
     Choices |-> [i \in 1..Len(r.Choices) |-> ClientChoice(r.Choices[i])],
     Usage |-> r.Usage]

NoResponse ==
    [status |-> 0, kind |-> "none", model |-> <<>>, completion |-> ZeroCompletion,
     error |-> NoError]

Reply(status, kind) == [NoResponse EXCEPT !.status = status, !.kind = kind]

\* Lines 727-731: http.Error(w, message, code).  WriteHeader panics on a code
\* outside 100..999; the server recovers the panic of the handler and closes
\* the connection with nothing written.
HttpError(message, code) ==
    IF code < 100 \/ code > 999 THEN Reply(0, "panic")
    ELSE [Reply(code, "upstream error") EXCEPT
            !.error = [NoError EXCEPT !.set = TRUE, !.Message = message]]

\* handleRegularResponse, lines 681-800.
HandleRegularResponse(reply) ==
    IF ~reply.read THEN Reply(500, "Error reading response from upstream")
    ELSE IF ~reply.json THEN Reply(500, "Error parsing response")
    ELSE IF reply.parsed.Error.set THEN HttpError(reply.parsed.Error.Message, reply.parsed.Error.Code)
    ELSE [Reply(reply.status, "completion") EXCEPT
            !.completion = OpenAIResp(reply.parsed)]

\* The request is read, dispatched, authenticated, parsed and its model id
\* checked (lines 347-426).  GET /v1/config answers at once with one read of
\* the store (line 915); GET /v1/models goes upstream.
Receive(r) ==
    /\ pc = "idle"
    /\ Route(r) # "postConfig"
    /\ request' = r
    /\ upstream' = <<>>
    /\ forwarded' = 0
    /\ upstreamReply' = NoReply
    /\ openRouterReq' = ZeroOpenRouterReq
    /\ provider' = ""
    /\ chatReq' = IF Route(r) \in {"unsupportedModel", "rewrite"}
                  THEN ParseChat(r.body) ELSE ZeroChatReq
    /\ CASE Route(r) = "options" ->
              pc' = "done" /\ response' = Reply(200, "cors")
         [] Route(r) = "getConfig" ->
              pc' = "done"
              /\ response' = [Reply(200, "config") EXCEPT !.model = LoadModel]
         [] Route(r) = "getModels" ->
              pc' = "models" /\ response' = NoResponse
         [] Route(r) = "notFound" ->
              pc' = "done" /\ response' = Reply(404, "Not found")
         [] Route(r) = "unauthorized" ->
              pc' = "done" /\ response' = Reply(401, "unauthorized")
         [] Route(r) = "invalidJSON" ->
              pc' = "done" /\ response' = Reply(400, "Invalid JSON")
         [] Route(r) = "unsupportedModel" ->
              pc' = "done" /\ response' = Reply(400, "Model not supported")
         [] Route(r) = "rewrite" ->
              pc' = "L420" /\ response' = NoResponse
    /\ UNCHANGED <<tl, conv, poolVars, activeConfig, cfg, relayVars>>

----------------------------------------------------------------------------
(* proxyHandler: the Request Rewriter, lines 417-539 *)

\* The assignment of line 420 the other way round: the request's model id
\* into the store.
ReplaceModelIntoStore ==
    /\ pc = "L420"
    /\ activeConfig' = [activeConfig EXCEPT !.model = Header(chatReq.Model)]
    /\ pc' = "L430"
    /\ UNCHANGED <<tl, conv, poolVars, cfg, relayVars, request, chatReq, openRouterReq, provider,
                   upstream, forwarded, upstreamReply, response>>

\* Line 420: the first read of the active model, into chatReq.Model.
ReplaceModel ==
    /\ pc = "L420"
    /\ chatReq' = [chatReq EXCEPT !.Model = LoadModel]
    /\ pc' = "L430"
    /\ UNCHANGED <<tl, conv, poolVars, activeConfig, cfg, relayVars, request, openRouterReq, provider, upstream,
                   forwarded, upstreamReply, response>>

\* The upstream request named after the built-in default, not the store.
NewOpenRouterReqDefault(model, c) ==
    [Model |-> openRouterModel, Stream |-> c.Stream, Temperature |-> 0,
     MaxTokens |-> 0]

\* Lines 429-433: the second read, into the upstream request.
NewOpenRouterReq(model, c) ==
    [Model |-> model, Stream |-> c.Stream, Temperature |-> 0, MaxTokens |-> 0]

\* chatReq.Model is not read after this line; the model drops its value.
BuildRequest ==
    /\ pc = "L430"
    /\ openRouterReq' = NewOpenRouterReq(LoadModel, chatReq)
    /\ chatReq' = [chatReq EXCEPT !.Model = <<>>]
    /\ pc' = "L437"
    /\ UNCHANGED <<tl, conv, poolVars, activeConfig, cfg, relayVars, request, provider, upstream,
                   forwarded, upstreamReply, response>>

Clamp(t) == IF t > TempCeiling THEN TempCeiling ELSE t

\* Lines 438-444.
MistralPolicy(o, c) ==
    IF c.Temperature.set THEN [o EXCEPT !.Temperature = Clamp(c.Temperature.v)] ELSE o

\* Lines 446-455.
GooglePolicy(o, c) ==
    LET t == IF c.Temperature.set
             THEN [o EXCEPT !.Temperature = Clamp(c.Temperature.v)] ELSE o
    IN IF c.MaxTokens.set THEN [t EXCEPT !.MaxTokens = c.MaxTokens.v] ELSE t

\* Lines 457-462.
DefaultPolicy(o, c) ==
    LET t == IF c.Temperature.set
             THEN [o EXCEPT !.Temperature = c.Temperature.v] ELSE o
    IN IF c.MaxTokens.set THEN [t EXCEPT !.MaxTokens = c.MaxTokens.v] ELSE t

\* Line 437: the first case of the switch, with its own read.
CaseMistral ==
    /\ pc = "L437"
    /\ IF HasPrefix(LoadModel, MistralPrefix)
       THEN openRouterReq' = MistralPolicy(openRouterReq, chatReq) /\ pc' = "L523"
       ELSE openRouterReq' = openRouterReq /\ pc' = "L445"
    /\ UNCHANGED <<tl, conv, poolVars, activeConfig, cfg, relayVars, request, chatReq, provider, upstream,
                   forwarded, upstreamReply, response>>

\* Lines 445-463: the second case, with another read, and the default.
CaseGoogle ==
    /\ pc = "L445"
    /\ openRouterReq' = IF HasPrefix(LoadModel, GooglePrefix)
                        THEN GooglePolicy(openRouterReq, chatReq)
                        ELSE DefaultPolicy(openRouterReq, chatReq)
    /\ pc' = "L523"
    /\ UNCHANGED <<tl, conv, poolVars, activeConfig, cfg, relayVars, request, chatReq, provider, upstream,
                   forwarded, upstreamReply, response>>

\* Lines 523-524: the header switch reads the model again.
HeaderMistral ==
    /\ pc = "L523"
    /\ IF HasPrefix(LoadModel, MistralPrefix)
       THEN provider' = "mistral" /\ pc' = "L541"
       ELSE provider' = provider /\ pc' = "L525"
    /\ UNCHANGED <<tl, conv, poolVars, activeConfig, cfg, relayVars, request, chatReq, openRouterReq, upstream,
                   forwarded, upstreamReply, response>>

\* Lines 525-527.
HeaderGoogle ==
    /\ pc = "L525"
    /\ provider' = IF HasPrefix(LoadModel, GooglePrefix) THEN "google" ELSE provider
    /\ pc' = "L541"
    /\ UNCHANGED <<tl, conv, poolVars, activeConfig, cfg, relayVars, request, chatReq, openRouterReq, upstream,
                   forwarded, upstreamReply, response>>

\* json.Marshal of OpenRouterRequest (lines 261-269, 486): the omitempty
\* fields are left out when they hold the zero value.
OmitEmpty(x) == IF x = 0 THEN Nil ELSE Some(x)

Marshal(o) ==
    [model |-> o.Model, stream |-> o.Stream,
     temperature |-> OmitEmpty(o.Temperature),
     max_tokens |-> OmitEmpty(o.MaxTokens)]

\* Lines 495-503.
TargetURL(endpoint, path) ==
    (IF HasSuffix(endpoint, Slash) THEN endpoint ELSE endpoint \o Slash)
        \o TrimPrefix(path, V1Prefix)

\* Lines 505-539: the request httpClient.Do is given.
ProxyReq ==
    [method |-> request.method,
     url |-> TargetURL(activeConfig.endpoint, request.path),
     authorization |-> activeConfig.apiKey,
     accept |-> IF chatReq.Stream THEN "text/event-stream" ELSE "application/json",
     provider |-> provider,
     body |-> Marshal(openRouterReq)]

\* Line 541: the call leaves.  openRouterReq and the header set are not read
\* again: from here on they live in the request in flight.
Forward ==
    /\ pc = "L541"
    /\ upstream' = <<ProxyReq>>
    /\ forwarded' = forwarded + 1
    /\ openRouterReq' = ZeroOpenRouterReq
    /\ provider' = ""
    /\ pc' = "await"
    /\ UNCHANGED <<tl, conv, poolVars, activeConfig, cfg, relayVars, request, chatReq, upstreamReply, response>>

----------------------------------------------------------------------------
(* proxyHandler: the answer, lines 541-601 *)

ErrorStatuses == {429, 500}

\* The statuses upstream answers with: success, a status that is neither a
\* success nor an error, and the errors.
UpstreamStatuses == {200, 304} \cup ErrorStatuses

\* Upstream's answers by status and body: a body that cannot be read, one
\* that is not JSON, and JSON with or without an error object.
ErrorReplies ==
    {[NoReply EXCEPT !.status = st, !.read = FALSE] : st \in UpstreamStatuses}
    \cup {[NoReply EXCEPT !.status = st] : st \in UpstreamStatuses}
    \cup {[NoReply EXCEPT !.status = st, !.json = TRUE, !.parsed.Error = e] :
            st \in UpstreamStatuses, e \in UpstreamErrors \cup {NoError}}

\* The error path answering every unparsed body 502.
ErrorResponseBadGateway(reply) ==
    IF ~reply.read THEN Reply(500, "Error reading response")
    ELSE IF ~reply.json THEN Reply(502, "raw body")
    ELSE [Reply(reply.status, "error object") EXCEPT
            !.error = [reply.parsed.Error EXCEPT !.set = TRUE]]

\* Lines 554-590: the answer of the error path.
ErrorResponse(reply) ==
    IF ~reply.read THEN Reply(500, "Error reading response")
    ELSE IF ~reply.json THEN Reply(reply.status, "raw body")
    ELSE [Reply(reply.status, "error object") EXCEPT
            !.error = [reply.parsed.Error EXCEPT !.set = TRUE]]

\* The forward tried a second time after a transport failure.
ForwardFailsRetries ==
    /\ pc = "await"
    /\ forwarded < 2
    /\ upstreamReply' = [NoReply EXCEPT !.err = TRUE]
    /\ pc' = "L541"
    /\ upstream' = <<>>
    /\ UNCHANGED <<tl, conv, poolVars, activeConfig, cfg, relayVars, request, chatReq, openRouterReq, provider,
                   forwarded, response>>

\* Lines 542-546.
ForwardFails ==
    /\ pc = "await"
    /\ upstreamReply' = [NoReply EXCEPT !.err = TRUE]
    /\ response' = Reply(502, "Error forwarding request")
    /\ pc' = "done"
    /\ upstream' = <<>>
    /\ UNCHANGED <<tl, conv, poolVars, activeConfig, cfg, relayVars, request, chatReq, openRouterReq, provider,
                   forwarded>>

\* Lines 553-591: upstream's status with the structured error or the raw body.
UpstreamError(reply) ==
    /\ pc = "await"
    /\ reply.status >= 400
    /\ upstreamReply' = reply
    /\ response' = ErrorResponse(reply)
    /\ pc' = "done"
    /\ upstream' = <<>>
    /\ UNCHANGED <<tl, conv, poolVars, activeConfig, cfg, relayVars, request, chatReq, openRouterReq, provider,
                   forwarded>>

\* Lines 594-597: the relay takes the connection over (RelaySpec).
StreamingReply(status) ==
    /\ pc = "await"
    /\ status < 400
    /\ chatReq.Stream
    /\ upstreamReply' = [NoReply EXCEPT !.status = status]
    /\ response' = Reply(status, "event-stream")
    /\ pc' = "relay"
    /\ upstream' = <<>>
    /\ UNCHANGED <<tl, conv, poolVars, activeConfig, cfg, relayVars, request, chatReq, openRouterReq, provider,
                   forwarded>>

\* proxyHandler has returned; the connection waits for its next request.
Return ==
    /\ pc = "done"
    /\ pc' = "idle"
    /\ request' = NoRequest
    /\ chatReq' = ZeroChatReq
    /\ openRouterReq' = ZeroOpenRouterReq
    /\ provider' = ""
    /\ upstream' = <<>>
    /\ forwarded' = 0
    /\ upstreamReply' = NoReply
    /\ response' = NoResponse
    /\ UNCHANGED <<tl, conv, poolVars, activeConfig, cfg, relayVars>>

\* handleStreamingResponse returns.
RelayReturns ==
    /\ pc = "relay"
    /\ pc' = "done"
    /\ UNCHANGED <<tl, conv, poolVars, activeConfig, cfg, relayVars, request, chatReq, openRouterReq, provider,
                   upstream, forwarded, upstreamReply, response>>

\* Line 600.
RegularReply(reply) ==
    /\ pc = "await"
    /\ reply.status < 400
    /\ ~chatReq.Stream
    /\ upstreamReply' = reply
    /\ response' = HandleRegularResponse(reply)
    /\ pc' = "done"
    /\ upstream' = <<>>
    /\ UNCHANGED <<tl, conv, poolVars, activeConfig, cfg, relayVars, request, chatReq, openRouterReq, provider,
                   forwarded>>

\* handleGetModelsRequest, lines 919-942.
ModelsURL == openRouterEndpoint \o <<"/","m","o","d","e","l","s">>

ModelsReq ==
    [method |-> "GET", url |-> ModelsURL, authorization |-> "",
     accept |-> "", provider |-> "", body |-> Marshal(ZeroOpenRouterReq)]

\* Line 929: the listing is asked of upstream.
ForwardModels ==
    /\ pc = "models"
    /\ upstream' = <<ModelsReq>>
    /\ forwarded' = forwarded + 1
    /\ pc' = "awaitModels"
    /\ UNCHANGED <<tl, conv, poolVars, activeConfig, cfg, relayVars, request, chatReq, openRouterReq, provider,
                   upstreamReply, response>>

\* Lines 930-942.
GetModels(reply) ==
    /\ pc = "awaitModels"
    /\ upstream' = <<>>
    /\ upstreamReply' = reply
    /\ response' = IF reply.err THEN Reply(500, "Error fetching models")
                   ELSE IF reply.status # 200 THEN Reply(reply.status, "Failed to fetch models")
                   ELSE Reply(200, "models")
    /\ pc' = "done"
    /\ UNCHANGED <<tl, conv, poolVars, activeConfig, cfg, relayVars, request, chatReq, openRouterReq, provider,
                   forwarded>>

ModelsReplies ==
    {[NoReply EXCEPT !.err = TRUE]}
    \cup {[NoReply EXCEPT !.status = st, !.json = TRUE] : st \in {200} \cup ErrorStatuses}

\* The replies the handler is shown next to the configuration connection.
SampleChoices ==
    {<<>>,
     <<[Index |-> 0, Message |-> AssistantMessage(<<"f", "">>), FinishReason |-> "tool_calls"],
       [Index |-> 1, Message |-> AssistantMessage(<<>>), FinishReason |-> "stop"]>>}

SampleReplies == Completions(SampleChoices) \cup ErrorBodies \cup ErrorReplies

----------------------------------------------------------------------------
(* getBuffer, putBuffer and readResponse, lines 54-90 and 844-875, with the
   callers' use of the bytes readResponse returns *)

MaxBuffers == 2

Buffers == 1..MaxBuffers

\* The requests whose answers are read at the same time.
Readers == {1, 2}

\* Upstream bodies, decompressed; both fit the capacity a buffer retains.
PoolBodies == {<<"a", "a">>, <<"b">>}

\* A *bytes.Buffer: the bytes of its backing array, its length, whether its
\* capacity has reached 1024, and whether New has made it yet.
ZeroBuffer == [mem |-> <<>>, len |-> 0, big |-> FALSE, made |-> FALSE]

\* A []byte: the buffer whose backing array it points into, and its length.
NoBytes == [buf |-> 0, len |-> 0]

ZeroReader ==
    [pc |-> "idle", data |-> <<>>, large |-> FALSE, buf |-> 0, body |-> NoBytes,
     seen |-> <<>>]

PoolIdle ==
    /\ smallBufferPool = {}
    /\ largeBufferPool = {}
    /\ buffers = [b \in Buffers |-> ZeroBuffer]
    /\ readers = [r \in Readers |-> ZeroReader]

\* Writing new at the start of a backing array that holds old.
Overlay(old, new) == new \o SubSeq(old, Len(new) + 1, Len(old))

\* buf.Bytes() (line 874): a slice of the buffer's own backing array.
Bytes(b) == [buf |-> b, len |-> buffers[b].len]

\* Reading a []byte reads the backing array as it is now.
ReadSlice(s) == IF s.buf = 0 THEN <<>> ELSE SubSeq(buffers[s.buf].mem, 1, s.len)

\* Lines 844-864: readResponse is called with upstream's response; large
\* tells whether resp.ContentLength is 1024 or more.
ReadResponse(r, d, large) ==
    /\ readers[r].pc = "idle"
    /\ readers' = [readers EXCEPT ![r] =
                      [ZeroReader EXCEPT !.pc = "get", !.data = d, !.large = large]]
    /\ UNCHANGED <<tl, conv, activeConfig, cfg, connVars, relayVars, smallBufferPool,
                   largeBufferPool, buffers>>

\* Lines 73-82 and 865: Get hands out a pooled buffer or a new one, and the
\* buffer is reset: its length is zero, its backing array is kept.
GetBuffer(r) ==
    /\ readers[r].pc = "get"
    /\ \E b \in Buffers :
          /\ \/ ~buffers[b].made
             \/ b \in (IF readers[r].large THEN largeBufferPool ELSE smallBufferPool)
          /\ smallBufferPool' = smallBufferPool \ {b}
          /\ largeBufferPool' = largeBufferPool \ {b}
          /\ buffers' = [buffers EXCEPT ![b].len = 0, ![b].made = TRUE]
          /\ readers' = [readers EXCEPT ![r].buf = b, ![r].pc = "copy"]
    /\ UNCHANGED <<tl, conv, activeConfig, cfg, connVars, relayVars>>

\* Line 868: io.Copy writes the body from the start of the backing array;
\* the capacity reaches 1024 for a large body and may for a small one.
CopyBody(r, grows) ==
    /\ readers[r].pc = "copy"
    /\ LET b == readers[r].buf
       IN buffers' = [buffers EXCEPT
                         ![b].mem = Overlay(@, readers[r].data),
                         ![b].len = Len(readers[r].data),
                         ![b].big = @ \/ readers[r].large \/ grows]
    /\ readers' = [readers EXCEPT ![r].pc = "put"]
    /\ UNCHANGED <<tl, conv, activeConfig, cfg, connVars, relayVars, smallBufferPool,
                   largeBufferPool>>

\* Lines 869-871 and 84-90: io.Copy fails; the buffer goes back to its pool
\* and the caller gets no bytes.
CopyFails(r) ==
    /\ readers[r].pc = "copy"
    /\ LET b == readers[r].buf
       IN /\ smallBufferPool' =
                IF buffers[b].big THEN smallBufferPool ELSE smallBufferPool \cup {b}
          /\ largeBufferPool' =
                IF buffers[b].big THEN largeBufferPool \cup {b} ELSE largeBufferPool
    /\ readers' = [readers EXCEPT ![r].buf = 0, ![r].pc = "done"]
    /\ UNCHANGED <<tl, conv, activeConfig, cfg, connVars, relayVars, buffers>>

\* Lines 874 and 866, 84-90: buf.Bytes() is the result, then the deferred
\* putBuffer returns the buffer to the pool its capacity selects.
PutBuffer(r) ==
    /\ readers[r].pc = "put"
    /\ LET b == readers[r].buf
       IN /\ smallBufferPool' =
                IF buffers[b].big THEN smallBufferPool ELSE smallBufferPool \cup {b}
          /\ largeBufferPool' =
                IF buffers[b].big THEN largeBufferPool \cup {b} ELSE largeBufferPool
          /\ readers' = [readers EXCEPT ![r].body = Bytes(b), ![r].buf = 0,
                                        ![r].pc = "unmarshal"]
    /\ UNCHANGED <<tl, conv, activeConfig, cfg, connVars, relayVars, buffers>>

\* Lines 721 and 563: the caller decodes the bytes readResponse returned.
Unmarshal(r) ==
    /\ readers[r].pc = "unmarshal"
    /\ readers' = [readers EXCEPT ![r].seen = ReadSlice(readers[r].body),
                                  ![r].pc = "done"]
    /\ UNCHANGED <<tl, conv, activeConfig, cfg, connVars, relayVars, smallBufferPool,
                   largeBufferPool, buffers>>

\* The handler returns and the connection waits for its next request.
ReaderDone(r) ==
    /\ readers[r].pc = "done"
    /\ readers' = [readers EXCEPT ![r] = ZeroReader]
    /\ UNCHANGED <<tl, conv, activeConfig, cfg, connVars, relayVars, smallBufferPool,
                   largeBufferPool, buffers>>

----------------------------------------------------------------------------
(* convertToolChoice and the tools step of proxyHandler, lines 189-210 and
   465-486 *)

\* A JSON value as json.Unmarshal leaves it in an interface{}; of a string
\* its text is kept.
Value(kind, str) == [kind |-> kind, str |-> str]

\* tool_choice: nil, a string, a map (with its "type" entry, absent or any
\* value), or another JSON value.
Choice(kind, str, type) == [kind |-> kind, str |-> str, type |-> type]

NilChoice == Choice("nil", "", Value("absent", ""))

ToolChoices ==
    {NilChoice}
    \cup {Choice("string", t, Value("absent", "")) : t \in {"auto", "none", "required", ""}}
    \cup {Choice("map", "", v) :
            v \in {Value("absent", ""), Value("string", "function"),
                   Value("string", "auto"), Value("number", "")}}
    \cup {Choice("number", "", Value("absent", "")), Choice("list", "", Value("absent", ""))}

\* The tools and the legacy functions of a request.
RequestTools == {<<>>, <<[Type |-> "function", Function |-> "t"]>>}
RequestFunctions == {<<>>, <<"f">>, <<"f", "g">>}

\* Every string is let through.
ConvertToolChoiceAnyString(choice) ==
    IF choice.kind = "nil" THEN ""
    ELSE IF choice.kind = "string" THEN choice.str
    ELSE IF choice.kind = "map" /\ choice.type = Value("string", "function") THEN "auto"
    ELSE ""

\* Lines 189-210.
ConvertToolChoice(choice) ==
    IF choice.kind = "nil" THEN ""
    ELSE IF choice.kind = "string" /\ choice.str \in {"auto", "none"} THEN choice.str
    ELSE IF choice.kind = "map" /\ choice.type = Value("string", "function") THEN "auto"
    ELSE ""

ZeroToolFields == [Tools |-> <<>>, Functions |-> <<>>, ToolChoice |-> NilChoice]

ToolsIdle ==
    [pc |-> "idle", chat |-> ZeroToolFields,
     req |-> [Tools |-> <<>>, ToolChoice |-> ""],
     body |-> [tools |-> [set |-> FALSE, v |-> <<>>],
               tool_choice |-> [set |-> FALSE, v |-> ""]]]

\* Lines 408-433: the request is parsed and openRouterReq made, its tool
\* fields zero.
ToolsParsed(c) ==
    /\ tl.pc = "idle"
    /\ tl' = [ToolsIdle EXCEPT !.pc = "L466", !.chat = c]
    /\ UNCHANGED <<activeConfig, cfg, connVars, relayVars, poolVars, conv>>

\* Lines 471-477: the legacy functions wrapped as tools.
WrapFunctions(functions) ==
    [i \in 1..Len(functions) |-> [Type |-> "function", Function |-> functions[i]]]

\* Lines 466-483.
HandleTools ==
    /\ tl.pc = "L466"
    /\ LET tc == ConvertToolChoice(tl.chat.ToolChoice)
       IN tl' = [tl EXCEPT
                !.pc = "L486",
                !.req = IF Len(tl.chat.Tools) > 0
                        THEN [Tools |-> tl.chat.Tools,
                              ToolChoice |-> IF tc # "" THEN tc ELSE @.ToolChoice]
                        ELSE IF Len(tl.chat.Functions) > 0
                        THEN [Tools |-> WrapFunctions(tl.chat.Functions),
                              ToolChoice |-> IF tc # "" THEN tc ELSE @.ToolChoice]
                        ELSE @]
    /\ UNCHANGED <<activeConfig, cfg, connVars, relayVars, poolVars, conv>>

\* Line 486 with lines 267-268: json.Marshal leaves out an empty tool list
\* and an empty tool choice.
MarshalTools ==
    /\ tl.pc = "L486"
    /\ tl' = [tl EXCEPT
            !.pc = "done",
            !.body = [tools |-> [set |-> Len(tl.req.Tools) > 0, v |-> tl.req.Tools],
                      tool_choice |-> [set |-> tl.req.ToolChoice # "",
                                       v |-> tl.req.ToolChoice]]]
    /\ UNCHANGED <<activeConfig, cfg, connVars, relayVars, poolVars, conv>>

\* Line 541: the body has left; the handler is done with the request.
ToolsSent ==
    /\ tl.pc = "done"
    /\ tl' = ToolsIdle
    /\ UNCHANGED <<activeConfig, cfg, connVars, relayVars, poolVars, conv>>

----------------------------------------------------------------------------
(* convertMessages, lines 212-251 *)

MaxMessages == 2

\* Tool calls as a client sends them: the type may be absent or anything, and
\* the name may be empty.
CallOne ==
    [ID |-> "call_1", Type |-> "", Function |-> [Name |-> "f", Arguments |-> "{x}"]]
CallTwo ==
    [ID |-> "call_2", Type |-> "custom", Function |-> [Name |-> "", Arguments |-> ""]]

RequestToolCalls == {<<>>, <<CallOne>>, <<CallOne, CallTwo>>}

RequestMessages ==
    {[Role |-> r, Content |-> t.content, ToolCalls |-> c,
      ToolCallID |-> t.id, Name |-> t.name] :
        r \in {"user", "assistant", "function"}, c \in RequestToolCalls,
        t \in {[content |-> "hi", id |-> "", name |-> ""],
               [content |-> "42", id |-> "call_1", name |-> "f"]}}

\* A Message in memory: ToolCalls is a slice, here the number of its backing
\* array in conv.arrays, 0 for nil.
ZeroMessage ==
    [Role |-> "", Content |-> "", ToolCalls |-> 0, ToolCallID |-> "", Name |-> ""]

ConvertIdle ==
    [pc |-> "idle", messages |-> <<>>, converted |-> <<>>, arrays |-> <<>>,
     i |-> 0, given |-> <<>>]

\* The messages a slice of Message holds, its tool-call slices read through.
Deref(msgs, arrays) ==
    [k \in 1..Len(msgs) |->
        [msgs[k] EXCEPT !.ToolCalls = IF @ = 0 THEN <<>> ELSE arrays[@]]]

\* Lines 212-213: convertMessages is called with the messages of the parsed
\* request (line 431) and makes the result slice.
ConvertCall(msgs) ==
    /\ conv.pc = "idle"
    /\ conv' = [pc |-> "loop",
                messages |-> [k \in 1..Len(msgs) |->
                    [msgs[k] EXCEPT !.ToolCalls = IF Len(@) = 0 THEN 0 ELSE k]],
                arrays |-> [k \in 1..Len(msgs) |-> msgs[k].ToolCalls],
                converted |-> [k \in 1..Len(msgs) |-> ZeroMessage],
                i |-> 1,
                given |-> msgs]
    /\ UNCHANGED <<tl, activeConfig, cfg, connVars, relayVars, poolVars>>

\* Lines 222-228: the tool calls of an assistant message, rebuilt.
ConvertToolCalls(calls) ==
    [j \in 1..Len(calls) |->
        [ID |-> calls[j].ID, Type |-> "function", Function |-> calls[j].Function]]

\* The loop body writing the rebuilt tool calls into the array it was given.
ConvertStepInPlace ==
    /\ conv.pc = "loop"
    /\ conv.i <= Len(conv.messages)
    /\ LET msg == conv.messages[conv.i]
           rebuilds == msg.Role = "assistant" /\ msg.ToolCalls # 0
       IN conv' = [conv EXCEPT
                !.arrays = IF rebuilds
                           THEN [@ EXCEPT ![msg.ToolCalls] = ConvertToolCalls(@)]
                           ELSE @,
                !.converted[conv.i] =
                    [msg EXCEPT !.Role = IF @ = "function" THEN "tool" ELSE @],
                !.i = @ + 1]
    /\ UNCHANGED <<tl, activeConfig, cfg, connVars, relayVars, poolVars>>

\* Lines 214-240: one round of the loop.  converted[i] = msg copies the
\* message with its slice; an assistant message with tool calls gets a new
\* array of rebuilt calls; the role function becomes tool.
ConvertStep ==
    /\ conv.pc = "loop"
    /\ conv.i <= Len(conv.messages)
    /\ LET msg == conv.messages[conv.i]
           rebuilds == msg.Role = "assistant" /\ msg.ToolCalls # 0
           toolCalls == ConvertToolCalls(conv.arrays[msg.ToolCalls])
       IN conv' = [conv EXCEPT
                !.arrays = IF rebuilds THEN Append(@, toolCalls) ELSE @,
                !.converted[conv.i] =
                    [msg EXCEPT !.ToolCalls = IF rebuilds THEN Len(conv.arrays) + 1 ELSE @,
                                !.Role = IF @ = "function" THEN "tool" ELSE @],
                !.i = @ + 1]
    /\ UNCHANGED <<tl, activeConfig, cfg, connVars, relayVars, poolVars>>

\* Lines 242-250: the loop is over and converted is returned.
ConvertReturn ==
    /\ conv.pc = "loop"
    /\ conv.i > Len(conv.messages)
    /\ conv' = [conv EXCEPT !.pc = "done"]
    /\ UNCHANGED <<tl, activeConfig, cfg, connVars, relayVars, poolVars>>

\* Line 431: the caller has the result in openRouterReq.Messages; the call
\* is over.
ConvertTaken ==
    /\ conv.pc = "done"
    /\ conv' = ConvertIdle
    /\ UNCHANGED <<tl, activeConfig, cfg, connVars, relayVars, poolVars>>

----------------------------------------------------------------------------
(* handleStreamingResponse, lines 603-679 *)

MaxLines == 3
MaxTicks == 2

DataA == <<"d",":","a","\n">>
DataB == <<"d",":","b","\n">>
BlankCRLF == <<"\r","\n">>
Heartbeat == <<":"," ","h","e","a","r","t","b","e","a","t","\n","\n">>

\* The complete lines upstream may send.
UpstreamLines == {DataA, DataB, BlankCRLF}

\* The bytes ReadBytes returns together with an error: those read before the
\* delimiter was found, if any.
Fragments == {<<>>, <<"d",":","a">>}

\* Only the empty byte string counts as blank.
IsBlankEmpty(l) == Len(l) = 0

\* Line 660.
IsBlank(l) == Len(TrimSpace(l)) = 0

RelayIdle ==
    /\ rpc = "none"
    /\ hpc = "none"
    /\ line = <<>>
    /\ upLines = <<>>
    /\ upEOF = FALSE
    /\ ctxDone = FALSE
    /\ clientGone = FALSE
    /\ out = <<>>
    /\ flushed = 0
    /\ ticks = 0
    /\ writes = 0
    /\ writeFailed = FALSE
    /\ garbled = FALSE

\* The read loop without its ctx.Done() case.
LoopSelectAlwaysReads ==
    /\ rpc = "select"
    /\ rpc' = "read"
    /\ UNCHANGED <<tl, conv, poolVars, activeConfig, cfg, connVars, hpc, line, upLines, upEOF, ctxDone,
                   clientGone, out, flushed, ticks, writes, writeFailed, garbled>>

\* Lines 644-648: select with a default case takes ctx.Done() when it is
\* ready and reads otherwise.  Returning runs the deferred cancel().
LoopSelect ==
    /\ rpc = "select"
    /\ IF ctxDone
       THEN rpc' = "returned" /\ ctxDone' = TRUE
       ELSE rpc' = "read" /\ ctxDone' = ctxDone
    /\ UNCHANGED <<tl, conv, poolVars, activeConfig, cfg, connVars, hpc, line, upLines, upEOF,
                   clientGone, out, flushed, ticks, writes, writeFailed, garbled>>

\* Lines 649, 659-662: ReadBytes returns a complete line.
ReadLine(l) ==
    /\ rpc = "read"
    /\ ~upEOF
    /\ Len(upLines) < MaxLines
    /\ upLines' = Append(upLines, l)
    /\ line' = l
    /\ rpc' = IF IsBlank(l) THEN "select" ELSE "write"
    /\ UNCHANGED <<tl, conv, poolVars, activeConfig, cfg, connVars, hpc, upEOF, ctxDone, clientGone,
                   out, flushed, ticks, writes, writeFailed, garbled>>

\* io.EOF ending the relay like any other read error.
ReadEOFReturns(frag) ==
    /\ rpc = "read"
    /\ upEOF => frag = <<>>
    /\ upEOF' = TRUE
    /\ line' = frag
    /\ ctxDone' = TRUE
    /\ rpc' = "returned"
    /\ UNCHANGED <<tl, conv, poolVars, activeConfig, cfg, connVars, hpc, upLines, clientGone,
                   out, flushed, ticks, writes, writeFailed, garbled>>

\* io.EOF with the bytes read before it forwarded like a line.
ReadEOFForwards(frag) ==
    /\ rpc = "read"
    /\ upEOF => frag = <<>>
    /\ upEOF' = TRUE
    /\ line' = frag
    /\ rpc' = IF IsBlank(frag) THEN "select" ELSE "write"
    /\ UNCHANGED <<tl, conv, poolVars, activeConfig, cfg, connVars, hpc, upLines, ctxDone, clientGone,
                   out, flushed, ticks, writes, writeFailed, garbled>>

\* Lines 649-653: io.EOF loops; line holds what was read before the end of
\* the body and is not looked at.
ReadEOF(frag) ==
    /\ rpc = "read"
    /\ upEOF => frag = <<>>
    /\ upEOF' = TRUE
    /\ line' = frag
    /\ rpc' = "select"
    /\ UNCHANGED <<tl, conv, poolVars, activeConfig, cfg, connVars, hpc, upLines, ctxDone, clientGone,
                   out, flushed, ticks, writes, writeFailed, garbled>>

\* Lines 654-656: any other error cancels and returns.
ReadError(frag) ==
    /\ rpc = "read"
    /\ ~upEOF
    /\ line' = frag
    /\ ctxDone' = TRUE
    /\ rpc' = "returned"
    /\ UNCHANGED <<tl, conv, poolVars, activeConfig, cfg, connVars, hpc, upLines, upEOF, clientGone,
                   out, flushed, ticks, writes, writeFailed, garbled>>

\* A call of w.Write can fail once the client is gone; after the handler has
\* returned the ResponseWriter is no longer valid and either may happen.
MayFail == clientGone \/ rpc = "returned"
MaySucceed == TRUE

\* Lines 665-669.
LoopWrite(ok) ==
    /\ rpc = "write"
    /\ IF ok THEN MaySucceed ELSE MayFail
    /\ writes' = writes + 1
    /\ garbled' = (garbled \/ hpc \in {"write", "flush"})
    /\ IF ok
       THEN /\ out' = Append(out, line)
            /\ rpc' = "flush"
            /\ UNCHANGED <<ctxDone, writeFailed>>
       ELSE /\ writeFailed' = TRUE
            /\ ctxDone' = TRUE
            /\ rpc' = "returned"
            /\ out' = out
    /\ UNCHANGED <<tl, conv, poolVars, activeConfig, cfg, connVars, hpc, line, upLines, upEOF,
                   clientGone, flushed, ticks>>

\* Lines 672-676.
LoopFlush ==
    /\ rpc = "flush"
    /\ flushed' = Len(out)
    /\ rpc' = "select"
    /\ UNCHANGED <<tl, conv, poolVars, activeConfig, cfg, connVars, hpc, line, upLines, upEOF, ctxDone,
                   clientGone, out, ticks, writes, writeFailed, garbled>>

\* Line 627: the ticker fires and the select takes it.
Tick ==
    /\ hpc = "select"
    /\ ticks < MaxTicks
    /\ ticks' = ticks + 1
    /\ hpc' = "write"
    /\ UNCHANGED <<tl, conv, poolVars, activeConfig, cfg, connVars, rpc, line, upLines, upEOF, ctxDone,
                   clientGone, out, flushed, writes, writeFailed, garbled>>

\* Lines 629-633.
HeartbeatWrite(ok) ==
    /\ hpc = "write"
    /\ IF ok THEN MaySucceed ELSE MayFail
    /\ writes' = writes + 1
    /\ garbled' = (garbled \/ rpc \in {"write", "flush"})
    /\ IF ok
       THEN /\ out' = Append(out, Heartbeat)
            /\ hpc' = "flush"
            /\ UNCHANGED <<ctxDone, writeFailed>>
       ELSE /\ writeFailed' = TRUE
            /\ ctxDone' = TRUE
            /\ hpc' = "stopped"
            /\ out' = out
    /\ UNCHANGED <<tl, conv, poolVars, activeConfig, cfg, connVars, rpc, line, upLines, upEOF,
                   clientGone, flushed, ticks>>

\* Lines 634-636.
HeartbeatFlush ==
    /\ hpc = "flush"
    /\ flushed' = Len(out)
    /\ hpc' = "select"
    /\ UNCHANGED <<tl, conv, poolVars, activeConfig, cfg, connVars, rpc, line, upLines, upEOF, ctxDone,
                   clientGone, out, ticks, writes, writeFailed, garbled>>

\* Lines 637-638.
HeartbeatDone ==
    /\ hpc = "select"
    /\ ctxDone
    /\ hpc' = "stopped"
    /\ UNCHANGED <<tl, conv, poolVars, activeConfig, cfg, connVars, rpc, line, upLines, upEOF, ctxDone,
                   clientGone, out, flushed, ticks, writes, writeFailed, garbled>>

\* The client closes the connection, and the server cancels r.Context(),
\* the parent of ctx (line 618).
ClientDisconnects ==
    /\ rpc # "none"
    /\ ~clientGone
    /\ clientGone' = TRUE
    /\ UNCHANGED <<tl, conv, poolVars, activeConfig, cfg, connVars, rpc, hpc, line, upLines, upEOF,
                   ctxDone, out, flushed, ticks, writes, writeFailed, garbled>>

RequestCancelled ==
    /\ clientGone
    /\ ~ctxDone
    /\ ctxDone' = TRUE
    /\ UNCHANGED <<tl, conv, poolVars, activeConfig, cfg, connVars, rpc, hpc, line, upLines, upEOF,
                   clientGone, out, flushed, ticks, writes, writeFailed, garbled>>

\* The relay of one streaming request: proxyHandler has forwarded it, has got
\* a 2xx answer and calls handleStreamingResponse (lines 594-596), which has
\* written the headers and started the heartbeat goroutine (lines 609-641).
StreamingRequest == Req(Line("POST", ChatPath), BearerSk, MockedBody(TRUE, Nil, Nil))

RelayInit ==
    /\ activeConfig = InitConfig(<<>>)
    /\ cfg = CfgIdle
    /\ pc = "relay"
    /\ request = StreamingRequest
    /\ chatReq = [ParseChat(StreamingRequest.body) EXCEPT !.Model = <<>>]
    /\ openRouterReq = ZeroOpenRouterReq
    /\ provider = ""
    /\ upstream = <<>>
    /\ forwarded = 1
    /\ upstreamReply = [NoReply EXCEPT !.status = 200]
    /\ response = Reply(200, "event-stream")
    /\ rpc = "select"
    /\ hpc = "select"
    /\ line = <<>>
    /\ upLines = <<>>
    /\ upEOF = FALSE
    /\ ctxDone = FALSE
    /\ clientGone = FALSE
    /\ out = <<>>
    /\ flushed = 0
    /\ ticks = 0
    /\ writes = 0
    /\ writeFailed = FALSE
    /\ garbled = FALSE
    /\ PoolIdle
    /\ conv = ConvertIdle
    /\ tl = ToolsIdle

ReadBytes ==
    \/ \E l \in UpstreamLines : ReadLine(l)
    \/ \E frag \in Fragments : ReadEOF(frag) \/ ReadError(frag)

RelayNext ==
    \/ LoopSelect
    \/ \E l \in UpstreamLines : ReadLine(l)
    \/ \E frag \in Fragments : ReadEOF(frag)
    \/ \E frag \in Fragments : ReadError(frag)
    \/ \E ok \in BOOLEAN : LoopWrite(ok)
    \/ LoopFlush
    \/ Tick
    \/ \E ok \in BOOLEAN : HeartbeatWrite(ok)
    \/ HeartbeatFlush
    \/ HeartbeatDone
    \/ ClientDisconnects
    \/ RequestCancelled

RelaySpec == RelayInit /\ [][RelayNext]_vars

\* Scheduling: a goroutine that can step does step; ReadBytes returns within
\* httpClient.Timeout (line 52); a select with both cases ready takes each
\* of them sooner or later.
RelayFair ==
    /\ RelaySpec
    /\ WF_vars(LoopSelect)
    /\ WF_vars(ReadBytes)
    /\ WF_vars(\E ok \in BOOLEAN : LoopWrite(ok))
    /\ WF_vars(LoopFlush)
    /\ WF_vars(\E ok \in BOOLEAN : HeartbeatWrite(ok))
    /\ WF_vars(HeartbeatFlush)
    /\ SF_vars(HeartbeatDone)

----------------------------------------------------------------------------
(* The proxy *)

Init ==
    /\ \E env \in EnvModels : InitSucceeds(env) /\ activeConfig = InitConfig(env)
    /\ cfg = CfgIdle
    /\ pc = "idle"
    /\ request = NoRequest
    /\ chatReq = ZeroChatReq
    /\ openRouterReq = ZeroOpenRouterReq
    /\ provider = ""
    /\ upstream = <<>>
    /\ forwarded = 0
    /\ upstreamReply = NoReply
    /\ response = NoResponse
    /\ RelayIdle
    /\ PoolIdle
    /\ conv = ConvertIdle
    /\ tl = ToolsIdle

Next ==
    \/ \E auth \in FewConfigAuths, body \in ConfigBodies : CfgReceive(auth, body)
    \/ \E word \in {"data", "len"} : CfgStoreFirst(word)
    \/ CfgStoreSecond
    \/ CfgReply
    \/ \E r \in Requests : Receive(r)
    \/ ReplaceModel
    \/ BuildRequest
    \/ CaseMistral
    \/ CaseGoogle
    \/ HeaderMistral
    \/ HeaderGoogle
    \/ Forward
    \/ ForwardFails
    \/ \E reply \in ErrorReplies : UpstreamError(reply)
    \/ \E st \in UpstreamStatuses : StreamingReply(st)
    \/ RelayReturns
    \/ \E reply \in SampleReplies : RegularReply(reply)
    \/ ForwardModels
    \/ \E reply \in ModelsReplies : GetModels(reply)
    \/ Return

Spec == Init /\ [][Next]_vars

\* One request at a time: the two connections take turns, and every request
\* of the alphabet is served.
ProxyIdle == pc = "idle"
ConfigQuiet == cfg.pc \in {"idle", "done"}

SeqNext ==
    \/ \E auth \in ConfigAuths, body \in ConfigBodies : ProxyIdle /\ CfgReceive(auth, body)
    \/ \E word \in {"data", "len"} : ProxyIdle /\ CfgStoreFirst(word)
    \/ ProxyIdle /\ CfgStoreSecond
    \/ ProxyIdle /\ CfgReply
    \/ \E r \in AllRequests : ConfigQuiet /\ Receive(r)
    \/ ConfigQuiet /\ ReplaceModel
    \/ ConfigQuiet /\ BuildRequest
    \/ ConfigQuiet /\ CaseMistral
    \/ ConfigQuiet /\ CaseGoogle
    \/ ConfigQuiet /\ HeaderMistral
    \/ ConfigQuiet /\ HeaderGoogle
    \/ ConfigQuiet /\ Forward
    \/ ConfigQuiet /\ ForwardFails
    \/ \E reply \in ErrorReplies : ConfigQuiet /\ UpstreamError(reply)
    \/ \E st \in UpstreamStatuses : ConfigQuiet /\ StreamingReply(st)
    \/ ConfigQuiet /\ RelayReturns
    \/ \E reply \in SampleReplies : ConfigQuiet /\ RegularReply(reply)
    \/ ConfigQuiet /\ ForwardModels
    \/ \E reply \in ModelsReplies : ConfigQuiet /\ GetModels(reply)
    \/ ConfigQuiet /\ Return

SeqSpec == Init /\ [][SeqNext]_vars

----------------------------------------------------------------------------
(* Request Rewriter: the upstream model *)

\* A chat request has passed authentication and the model check, has been
\* rewritten, and its upstream request is in flight.
ChatInFlight ==
    /\ pc = "await"
    /\ upstream # <<>>
    /\ Authorized(request.auth)
    /\ request.body.model = cursorMockedModel

\* C1 as stated: the model sent upstream is the store's current model and is
\* never the id the client supplied, whatever updates came before the request.
C1_NeverClientId ==
    ChatInFlight =>
        /\ upstream[1].body.model = StringOf(activeConfig.model)
        /\ upstream[1].body.model # request.body.model

\* C1 amended: the model sent upstream is the store's current model, whatever
\* updates came before the request; it differs from the id the client
\* supplied unless the store itself holds the mocked identifier.
C1_UpstreamModelIsStoreModel ==
    ChatInFlight =>
        /\ upstream[1].body.model = StringOf(activeConfig.model)
        /\ (StringOf(activeConfig.model) # cursorMockedModel
              => upstream[1].body.model # request.body.model)

\* An update to a google model has been answered and the next chat request
\* carries that model upstream.
C1_Witness ==
    /\ ChatInFlight
    /\ cfg.pc = "done"
    /\ cfg.status = 200
    /\ cfg.reply = GoogleModel
    /\ upstream[1].body.model = GoogleModel

----------------------------------------------------------------------------
(* Request Rewriter: unsupported models *)

\* The request being handled is a decoded chat-style request naming a model
\* other than the mocked identifier.
ForeignModelRequest ==
    /\ request # NoRequest
    /\ request.method = "POST"
    /\ request.path = ChatPath
    /\ request.body.json
    /\ request.body.model # cursorMockedModel

\* The handler's answer to the request is an HTTP 400 "unsupported model"
\* error and nothing has been sent upstream for it.
RejectedUnsupported ==
    /\ response.status = 400
    /\ response.kind = "Model not supported"
    /\ upstream = <<>>
    /\ forwarded = 0

\* The step answers a request of the proxy handler.
AnswersRequest == pc # "done" /\ pc' = "done"

\* C2 as stated: every chat-style request whose model id differs from the
\* mocked identifier gets HTTP 400 with an unsupported-model error, no
\* upstream call is made for it and the configuration store is unchanged.
C2_ForeignModelRejected ==
    /\ [](pc = "done" /\ ForeignModelRequest => RejectedUnsupported)
    /\ [][AnswersRequest /\ ForeignModelRequest'
            => activeConfig' = activeConfig]_vars

\* C2 amended: every chat-style request that passes authentication and whose
\* model id differs from the mocked identifier gets HTTP 400 with an
\* unsupported-model error, no upstream call is made for it and the
\* configuration store is unchanged.
C2_AuthorizedForeignModelRejected ==
    /\ [](pc = "done" /\ ForeignModelRequest /\ Authorized(request.auth)
            => RejectedUnsupported)
    /\ [][AnswersRequest /\ ForeignModelRequest'
            => activeConfig' = activeConfig]_vars

\* An authenticated request naming another model has been answered with the
\* 400 while the store holds a model set by an earlier update.
C2_Witness ==
    /\ pc = "done"
    /\ ForeignModelRequest
    /\ Authorized(request.auth)
    /\ RejectedUnsupported
    /\ cfg.status = 200
    /\ StringOf(activeConfig.model) = GoogleModel

----------------------------------------------------------------------------
(* Streaming Relay *)

\* A line that holds nothing but white space.
OnlySpace(l) == \A i \in 1..Len(l) : IsSpace(l[i])

\* The upstream lines that carry data, in order.
DataLines(lines) == SelectSeq(lines, LAMBDA l : ~OnlySpace(l))

\* The chunks the read loop has written to the client, in order.
DataWritten == SelectSeq(out, LAMBDA c : c # Heartbeat)

\* C3: the data lines written to the client are exactly the non-blank
\* upstream lines, in order and byte for byte; whenever the loop is about to
\* read the next line every data line written so far has been flushed; and
\* no heartbeat line is written while no tick has fired.
C3_RelayForwardsDataLines ==
    /\ rpc \in {"select", "read", "flush"} => DataWritten = DataLines(upLines)
    /\ rpc = "write" => Append(DataWritten, line) = DataLines(upLines)
    /\ rpc = "returned" =>
          \/ DataWritten = DataLines(upLines)
          \/ writeFailed /\ Append(DataWritten, line) = DataLines(upLines)
    /\ rpc \in {"select", "read"} =>
          \A i \in 1..Len(out) : out[i] # Heartbeat => i <= flushed
    /\ ticks = 0 => \A i \in 1..Len(out) : out[i] # Heartbeat

\* Upstream has sent a data line, a blank line and a second data line and
\* has closed; both data lines are written and flushed and no tick fired.
C3_Witness ==
    /\ upLines = <<DataA, BlankCRLF, DataB>>
    /\ upEOF
    /\ rpc = "read"
    /\ ticks = 0
    /\ out = <<DataA, DataB>>
    /\ flushed = 2

\* C4: at every instant at most one of the read loop and the heartbeat task
\* is in the middle of writing to or flushing the client response stream.
C4_WritersSerialized ==
    ~(rpc \in {"write", "flush"} /\ hpc \in {"write", "flush"})

\* C6: whenever the cancellation context becomes done, the read loop stops
\* and the heartbeat task terminates.
C6_CancellationStopsRelay ==
    ctxDone ~> (rpc = "returned" /\ hpc = "stopped")

\* The client has gone, the context was cancelled for it, and both the read
\* loop and the heartbeat task have ended without a failed write.
C6_Witness ==
    /\ clientGone
    /\ ctxDone
    /\ ~writeFailed
    /\ upEOF
    /\ rpc = "returned"
    /\ hpc = "stopped"

\* C7: once a write to the client stream has failed, no further write to
\* that stream is attempted by the read loop or by the heartbeat task.
C7_NoWriteAfterFailure ==
    [][writeFailed => writes' = writes]_vars

----------------------------------------------------------------------------
(* Request Rewriter: one configuration generation per request *)

\* The model ids the store holds at one time or another: the one set at
\* startup and the ones set by updates.
GenerationModels ==
    {StringOf(InitConfig(env).model) : env \in {e \in EnvModels : InitSucceeds(e)}}
        \cup UpdateModels

\* The parameter policy and the provider header of the family of model m.
PolicyOf(m, o, c) ==
    IF HasPrefix(m, MistralPrefix) THEN MistralPolicy(o, c)
    ELSE IF HasPrefix(m, GooglePrefix) THEN GooglePolicy(o, c)
    ELSE DefaultPolicy(o, c)

ProviderOf(m) ==
    IF HasPrefix(m, MistralPrefix) THEN "mistral"
    ELSE IF HasPrefix(m, GooglePrefix) THEN "google"
    ELSE ""

\* The request in flight is the one a single read of model m produces.
FromGeneration(m) ==
    /\ upstream[1].body =
          Marshal(PolicyOf(m, NewOpenRouterReq(m, chatReq), chatReq))
    /\ upstream[1].provider = ProviderOf(m)

\* C5: under any interleaving of a configuration update with a chat request,
\* the upstream model field, the parameter policy applied and the provider
\* header all derive from one and the same configuration generation.
C5_OneGenerationPerRequest ==
    ChatInFlight => \E m \in GenerationModels : FromGeneration(m)

----------------------------------------------------------------------------
(* Response Normalizer: one non-streaming request against every bounded
   upstream answer *)

ResponseRequest == Req(Line("POST", ChatPath), BearerSk, MockedBody(FALSE, Nil, Nil))

BoundedReplies ==
    Completions(SeqsUpTo(UpstreamChoices, MaxChoices)) \cup ErrorBodies \cup {Unparsable}

ResponseInit ==
    /\ activeConfig = InitConfig(<<>>)
    /\ cfg = CfgIdle
    /\ pc = "idle"
    /\ request = NoRequest
    /\ chatReq = ZeroChatReq
    /\ openRouterReq = ZeroOpenRouterReq
    /\ provider = ""
    /\ upstream = <<>>
    /\ forwarded = 0
    /\ upstreamReply = NoReply
    /\ response = NoResponse
    /\ RelayIdle
    /\ PoolIdle
    /\ conv = ConvertIdle
    /\ tl = ToolsIdle

ResponseNext ==
    \/ Receive(ResponseRequest)
    \/ ReplaceModel
    \/ BuildRequest
    \/ CaseMistral
    \/ CaseGoogle
    \/ HeaderMistral
    \/ HeaderGoogle
    \/ Forward
    \/ pc = "await" /\ \E reply \in BoundedReplies : RegularReply(reply)
    \/ Return

ResponseSpec == ResponseInit /\ [][ResponseNext]_vars

\* handleRegularResponse has answered a non-streaming chat request from an
\* upstream body that parsed and carries no error object.
CompletionAnswered ==
    /\ pc = "done"
    /\ request.path = ChatPath
    /\ ~chatReq.Stream
    /\ ~upstreamReply.err
    /\ upstreamReply.status = 200
    /\ upstreamReply.json
    /\ ~upstreamReply.parsed.Error.set

\* C8: for every parsed upstream response with N choices and no error
\* object, the client response has exactly N choices, the i-th with the i-th
\* upstream choice's index and finish reason, keeps id, created and usage,
\* and names the mocked identifier as its model whatever upstream echoed.
C8_RoundTrip ==
    CompletionAnswered =>
        LET up == upstreamReply.parsed
            cl == response.completion
        IN /\ response.kind = "completion"
           /\ Len(cl.Choices) = Len(up.Choices)
           /\ \A i \in 1..Len(up.Choices) :
                 /\ cl.Choices[i].Index = up.Choices[i].Index
                 /\ cl.Choices[i].FinishReason = up.Choices[i].FinishReason
           /\ cl.ID = up.ID
           /\ cl.Created = up.Created
           /\ cl.Usage = up.Usage
           /\ cl.Model = cursorMockedModel

\* Upstream answered with two choices, the first carrying index 1 and the
\* second index 0, and echoed another model; the client got two choices
\* under the mocked model.
C8_Witness ==
    /\ CompletionAnswered
    /\ Len(upstreamReply.parsed.Choices) = 2
    /\ upstreamReply.parsed.Choices[1].Index = 1
    /\ upstreamReply.parsed.Choices[1].FinishReason = "stop"
    /\ upstreamReply.parsed.Choices[2].Index = 0
    /\ upstreamReply.parsed.Choices[2].FinishReason = "tool_calls"
    /\ upstreamReply.parsed.Model = GoogleModel
    /\ Len(response.completion.Choices) = 2
    /\ response.completion.Model = cursorMockedModel

\* The tool calls of a list that name a function, in order.
NamedToolCalls(calls) == SelectSeq(calls, LAMBDA tc : tc.Function.Name # "")

\* C9: the tool-call list of every client message is the upstream list with
\* the tool calls of empty function name removed and every other one kept
\* once, in the original order.
C9_ToolCallsFiltered ==
    CompletionAnswered =>
        \A i \in 1..Len(upstreamReply.parsed.Choices) :
            response.completion.Choices[i].Message.ToolCalls =
                NamedToolCalls(upstreamReply.parsed.Choices[i].Message.ToolCalls)

----------------------------------------------------------------------------
(* Request Rewriter: provider policy *)

\* C10: under a model of the google family a client temperature above 1.0
\* goes upstream as exactly 1.0, one at or below 1.0 goes unchanged, and a
\* present max-tokens is forwarded; under a model of neither family the
\* client's temperature and max-tokens go upstream with their exact values.
C10_ProviderPolicy ==
    ChatInFlight =>
        LET m == StringOf(activeConfig.model)
            c == request.body
            b == upstream[1].body
        IN /\ HasPrefix(m, GooglePrefix) =>
                /\ c.temperature.set =>
                      b.temperature =
                          Some(IF c.temperature.v > TempCeiling
                               THEN TempCeiling ELSE c.temperature.v)
                /\ c.max_tokens.set => b.max_tokens = c.max_tokens
           /\ ~HasPrefix(m, GooglePrefix) /\ ~HasPrefix(m, MistralPrefix) =>
                /\ b.temperature = c.temperature
                /\ b.max_tokens = c.max_tokens

----------------------------------------------------------------------------
(* Runtime Configuration Store: reads and updates *)

\* The models init() leaves in the store.
StartupModels ==
    {StringOf(InitConfig(env).model) : env \in {e \in EnvModels : InitSucceeds(e)}}

\* The step answers a GET /v1/config.
GetConfigStep ==
    /\ pc = "idle"
    /\ pc' = "done"
    /\ Route(request') = "getConfig"

\* The model of the most recent successful update, or a startup model while
\* there is none; an update that has begun its store and not yet answered
\* counts as well.
CurrentModels ==
    (IF cfg.last = <<>> THEN StartupModels ELSE {cfg.last})
        \cup (IF cfg.pc \in {"storeLen", "storeData", "reply"}
              THEN {cfg.model} ELSE {})

\* C11: every GET /v1/config returns the model of the most recent successful
\* update, or the startup model if there is none, and a successful POST
\* /v1/config with model m answers with status and model m.
C11_ConfigRoundTrip ==
    /\ [][GetConfigStep =>
            /\ response'.status = 200
            /\ response'.model \in CurrentModels]_vars
    /\ [](cfg.pc = "done" /\ cfg.status = 200 => cfg.reply = cfg.model)

\* A body handleConfigRequest cannot take an update from: undecodable, or
\* with the model missing or empty.
BadConfigBody(b) == ~b.json \/ ~b.hasModel \/ b.model = <<>>

\* C12: a POST /v1/config whose body is undecodable or whose model is missing
\* or empty is answered 400 and leaves model, endpoint and API key of the
\* store as they were; any non-empty model is accepted and stored as sent,
\* whatever its shape.
C12_BadUpdateRejected ==
    /\ [][cfg' # cfg /\ BadConfigBody(cfg'.body) =>
            /\ cfg'.pc = "done"
            /\ cfg'.status = 400
            /\ activeConfig' = activeConfig]_vars
    /\ [](cfg.pc = "done" /\ ~BadConfigBody(cfg.body) =>
            /\ cfg.status = 200
            /\ StringOf(activeConfig.model) = cfg.body.model
            /\ activeConfig.endpoint = openRouterEndpoint
            /\ activeConfig.apiKey = StartupKey)

\* An update with an empty model has been answered 400 after an earlier
\* update to a google model, which the store still holds.
C12_Witness ==
    /\ cfg.pc = "done"
    /\ cfg.status = 400
    /\ cfg.body = [json |-> TRUE, hasModel |-> TRUE, model |-> <<>>]
    /\ cfg.last = GoogleModel
    /\ activeConfig = [InitConfig(<<>>) EXCEPT !.model = Header(GoogleModel)]

----------------------------------------------------------------------------
(* Compressed Body Reader: two requests reading their answers *)

PoolInit == ResponseInit

PoolNext ==
    \E r \in Readers :
        \/ \E d \in PoolBodies, large \in BOOLEAN : ReadResponse(r, d, large)
        \/ GetBuffer(r)
        \/ \E grows \in BOOLEAN : CopyBody(r, grows)
        \/ CopyFails(r)
        \/ PutBuffer(r)
        \/ Unmarshal(r)
        \/ ReaderDone(r)

PoolSpec == PoolInit /\ [][PoolNext]_vars

\* The buffers a pool holds or a request has acquired.
PooledOrAcquired ==
    smallBufferPool \cup largeBufferPool
        \cup {readers[r].buf : r \in {q \in Readers : readers[q].buf # 0}}

\* C13: a buffer has length zero when it has just been acquired; the bytes of
\* a buffer that is back in the pool are never read again; and the bytes a
\* request got from readResponse are the bytes of its own answer, whatever
\* the other request does with the pooled buffers.
C13_PoolDiscipline ==
    /\ [](\A r \in Readers :
            readers[r].pc = "copy" => buffers[readers[r].buf].len = 0)
    /\ [][\A r \in Readers :
            readers[r].pc = "unmarshal" /\ readers'[r].pc = "done"
                => readers[r].body.buf \notin PooledOrAcquired]_vars
    /\ [](\A r \in Readers :
            readers[r].pc = "done" /\ readers[r].body # NoBytes
                => readers[r].seen = readers[r].data)

----------------------------------------------------------------------------
(* Authentication *)

\* The header reads "Bearer ", then white space or none, then a key that
\* begins with "sk-".
BearerKeyForm(auth) ==
    \E i \in 7..Len(auth) :
        /\ SubSeq(auth, 1, 7) = <<"B", "e", "a", "r", "e", "r", " ">>
        /\ \A j \in 8..i : auth[j] = " "
        /\ SubSeq(auth, i + 1, i + 3) = <<"s", "k", "-">>

\* C14: a POST /v1/chat/completions without an Authorization header of the
\* form "Bearer <key with the expected prefix>" is answered 401, whatever its
\* body; the body is neither parsed nor translated and nothing goes upstream.
C14_UnauthorizedRejected ==
    (/\ pc = "done"
     /\ request.method = "POST"
     /\ request.path = ChatPath
     /\ ~BearerKeyForm(request.auth))
        => /\ response.status = 401
           /\ response.kind = "unauthorized"
           /\ chatReq = ZeroChatReq
           /\ openRouterReq = ZeroOpenRouterReq
           /\ upstream = <<>>
           /\ forwarded = 0

\* A request with a Bearer key of another prefix and a body that names the
\* mocked model has been answered 401.
C14_Witness ==
    /\ pc = "done"
    /\ request.method = "POST"
    /\ request.path = ChatPath
    /\ request.auth = BearerOther
    /\ request.body.json
    /\ request.body.model = cursorMockedModel
    /\ response.status = 401

----------------------------------------------------------------------------
(* Upstream's errors *)

\* A chat request was forwarded and upstream answered it with a status.
UpstreamAnswered ==
    /\ pc \in {"relay", "done"}
    /\ request.method = "POST"
    /\ forwarded = 1
    /\ ~upstreamReply.err
    /\ upstreamReply.status # 0

\* The client's answer has upstream's status, with upstream's error object
\* when the body parsed and the raw body when it did not; neither the relay
\* nor handleRegularResponse answered.
PassedThrough ==
    /\ pc = "done"
    /\ response.status = upstreamReply.status
    /\ IF upstreamReply.json
         THEN /\ response.kind = "error object"
              /\ response.error.Message = upstreamReply.parsed.Error.Message
              /\ response.error.Type = upstreamReply.parsed.Error.Type
              /\ response.error.Code = upstreamReply.parsed.Error.Code
         ELSE response.kind = "raw body"

\* C15 as stated: every answer of upstream whose status is not 2xx is passed
\* through with upstream's status, and neither the relay nor the rewriter is
\* entered.
C15_NonSuccessPassedThrough ==
    (UpstreamAnswered /\ upstreamReply.status \notin 200..299) => PassedThrough

\* C15: an answer of upstream with a status of 400 or above whose body can be
\* read is passed through with upstream's status, as the error object when
\* the body parses and as the raw body when it does not, and neither the
\* relay nor the rewriter is entered; with an unreadable body the answer is
\* 500; an answer with a status below 400 goes to the relay or the rewriter.
C15_ErrorStatusPassedThrough ==
    UpstreamAnswered =>
        /\ (upstreamReply.status >= 400 /\ upstreamReply.read) => PassedThrough
        /\ (upstreamReply.status >= 400 /\ ~upstreamReply.read) =>
              (pc = "done" /\ response = Reply(500, "Error reading response"))
        /\ upstreamReply.status < 400 =>
              IF chatReq.Stream THEN response = Reply(upstreamReply.status, "event-stream")
              ELSE response = HandleRegularResponse(upstreamReply)

C15_Witness ==
    /\ UpstreamAnswered
    /\ pc = "done"
    /\ upstreamReply.status = 429
    /\ upstreamReply.read
    /\ ~upstreamReply.json
    /\ response = Reply(429, "raw body")

----------------------------------------------------------------------------
(* No retry *)

\* The forward of a chat request failed in transport and the handler is done.
ForwardFailed ==
    /\ pc = "done"
    /\ request.method = "POST"
    /\ upstreamReply.err

\* C16: a request causes at most one upstream call; when that call fails in
\* transport the client is answered 502 "Error forwarding request", and from
\* then on the request causes no further call and its answer is not written
\* again.
C16_NoRetry ==
    /\ [](/\ forwarded <= 1
          /\ ForwardFailed =>
                (forwarded = 1 /\ response = Reply(502, "Error forwarding request")))
    /\ [][ForwardFailed =>
            /\ forwarded' <= forwarded
            /\ response' \in {response, NoResponse}
            /\ upstream' = <<>>]_vars

C16_Witness ==
    /\ ForwardFailed
    /\ request.path = ChatPath
    /\ forwarded = 1
    /\ upstream = <<>>
    /\ response.status = 502

----------------------------------------------------------------------------
(* Health *)

\* C17: a GET /health the server has answered was answered by the health
\* handler of lines 280-316: upstream was called, and the answer is 200 on a
\* successful probe, 503 on a failed connection and upstream's status
\* otherwise.
C17_HealthProbesUpstream ==
    (pc = "done" /\ request.method = "GET" /\ request.path = HealthPath)
        => /\ forwarded = 1
           /\ \/ response.status = 200 /\ upstreamReply.status = 200
              \/ response.status = 503 /\ upstreamReply.err
              \/ response.status = upstreamReply.status /\ upstreamReply.status # 0

----------------------------------------------------------------------------
(* Relay: upstream's end of stream *)

\* C18: once the upstream body has reported EOF the read loop stays between
\* its select and its read for as long as the context is live, and with the
\* client connected it has not returned; a read that meets EOF again goes
\* back to the select; the loop returns only from a read error that is not
\* EOF, from a failed write, or from the select with the context done.
C18_EOFKeepsRelayOpen ==
    /\ [](upEOF /\ ~ctxDone => rpc \in {"select", "read"})
    /\ [](upEOF /\ ~clientGone => rpc # "returned")
    /\ [][rpc = "read" /\ upEOF => rpc' \in {"read", "select"}]_vars
    /\ [][rpc # "returned" /\ rpc' = "returned" =>
            \/ rpc = "read" /\ ~upEOF
            \/ rpc = "write" /\ writeFailed'
            \/ rpc = "select" /\ ctxDone]_vars

\* The read is polled again after EOF, the client still connected.
C18_Witness ==
    /\ upEOF
    /\ rpc = "read"
    /\ ~clientGone
    /\ ~ctxDone
    /\ Len(upLines) > 0
    /\ ticks > 0

----------------------------------------------------------------------------
(* Relay: complete lines only *)

EndsInNewline(l) == Len(l) > 0 /\ l[Len(l)] = "\n"

\* C19: everything the read loop has written to the client is a line
\* upstream sent complete, ending in the newline; the bytes ReadBytes returned
\* with an error are not among the writes, and a read that ends in an error
\* is followed by no write of the loop.
C19_NoPartialLine ==
    /\ [](\A i \in 1..Len(out) :
            \/ out[i] = Heartbeat
            \/ /\ EndsInNewline(out[i])
               /\ \E j \in 1..Len(upLines) : upLines[j] = out[i])
    /\ [][(rpc = "read" /\ upLines' = upLines) => rpc' \in {"read", "select", "returned"}]_vars
    /\ [][rpc = "write" /\ rpc' = "flush" => out' = Append(out, line) /\ EndsInNewline(line)]_vars

\* A fragment was read before EOF, after a complete line had been relayed,
\* and the read is polled again.
C19_Witness ==
    /\ upEOF
    /\ line = <<"d",":","a">>
    /\ rpc = "select"
    /\ \E i \in 1..Len(out) : out[i] = DataB

----------------------------------------------------------------------------
(* Message translation *)

ConvertInit == ResponseInit

ConvertNext ==
    \/ conv.pc = "idle" /\ \E msgs \in SeqsUpTo(RequestMessages, MaxMessages) : ConvertCall(msgs)
    \/ ConvertStep
    \/ ConvertReturn
    \/ ConvertTaken

ConvertSpec == ConvertInit /\ [][ConvertNext]_vars

\* The message the k-th input message is to become.
Translated(m, c) ==
    /\ c.Role = IF m.Role = "function" THEN "tool" ELSE m.Role
    /\ c.Content = m.Content
    /\ c.Name = m.Name
    /\ c.ToolCallID = m.ToolCallID
    /\ Len(c.ToolCalls) = Len(m.ToolCalls)
    /\ \A j \in 1..Len(m.ToolCalls) :
          /\ c.ToolCalls[j].ID = m.ToolCalls[j].ID
          /\ c.ToolCalls[j].Function.Name = m.ToolCalls[j].Function.Name
          /\ c.ToolCalls[j].Function.Arguments = m.ToolCalls[j].Function.Arguments
          /\ c.ToolCalls[j].Type =
                IF m.Role = "assistant" THEN "function" ELSE m.ToolCalls[j].Type

\* C20: the list convertMessages returns has the length and the order of the
\* list it was given; a message of role function has role tool, its content,
\* name and tool-call id kept; the tool calls of an assistant message have
\* type function and their id, name and arguments kept, one for one, the
\* unnamed ones too; every other message is the same; and the messages it
\* was given are, all along, what they were at the call.
C20_MessagesPreserved ==
    /\ conv.pc # "idle" => Deref(conv.messages, conv.arrays) = conv.given
    /\ conv.pc = "done" =>
          LET result == Deref(conv.converted, conv.arrays)
          IN /\ Len(result) = Len(conv.given)
             /\ \A k \in 1..Len(conv.given) : Translated(conv.given[k], result[k])

\* A function message, then an assistant message whose second tool call has
\* no name, translated.
C20_Witness ==
    /\ conv.pc = "done"
    /\ Len(conv.given) = 2
    /\ conv.given[1].Role = "function"
    /\ conv.given[1].ToolCallID = "call_1"
    /\ conv.given[2].Role = "assistant"
    /\ conv.given[2].ToolCalls = <<CallOne, CallTwo>>
    /\ Deref(conv.converted, conv.arrays)[1].Role = "tool"
    /\ Deref(conv.converted, conv.arrays)[2].ToolCalls[2].Function.Name = ""

----------------------------------------------------------------------------
(* Request Rewriter: optional numbers *)

\* The model the request in flight names is of neither special family.
PlainFamily(m) == ~HasPrefix(m, MistralPrefix) /\ ~HasPrefix(m, GooglePrefix)

\* C21: under a model of neither family the body sent upstream has a
\* temperature exactly when the client's body had one, and with the same
\* value, zero included; likewise for max-tokens.
C21_OptionalNumbersForwarded ==
    (ChatInFlight /\ PlainFamily(upstream[1].body.model)
                  /\ PlainFamily(StringOf(activeConfig.model))) =>
        /\ upstream[1].body.temperature.set = request.body.temperature.set
        /\ request.body.temperature.set =>
              upstream[1].body.temperature.v = request.body.temperature.v
        /\ upstream[1].body.max_tokens.set = request.body.max_tokens.set
        /\ request.body.max_tokens.set =>
              upstream[1].body.max_tokens.v = request.body.max_tokens.v

\* C22: under a model of the mistralai family the body sent upstream has no
\* max-tokens, whatever the client sent, and when the client sent a
\* temperature it has the smaller of that temperature and 1.0.
C22_MistralPolicy ==
    (ChatInFlight /\ HasPrefix(upstream[1].body.model, MistralPrefix)
                  /\ HasPrefix(StringOf(activeConfig.model), MistralPrefix)) =>
        /\ ~upstream[1].body.max_tokens.set
        /\ request.body.temperature.set =>
              /\ upstream[1].body.temperature.set
              /\ upstream[1].body.temperature.v =
                    IF request.body.temperature.v < TempCeiling
                    THEN request.body.temperature.v ELSE TempCeiling

----------------------------------------------------------------------------
(* Response Rewriter: upstream's error object *)

\* A non-streaming request was answered by upstream with a 2xx body that
\* parsed and holds an error object.
ErrorObjectAnswered ==
    /\ pc = "done"
    /\ request.method = "POST"
    /\ forwarded = 1
    /\ ~chatReq.Stream
    /\ ~upstreamReply.err
    /\ upstreamReply.status \in 200..299
    /\ upstreamReply.read
    /\ upstreamReply.json
    /\ upstreamReply.parsed.Error.set

\* C23: the client then gets an HTTP error whose body is upstream's message
\* and whose status is upstream's code, whatever the code, a missing or zero
\* one included, and no completion.
C23_ErrorObjectSurfaced ==
    ErrorObjectAnswered =>
        /\ response.kind = "upstream error"
        /\ response.status = upstreamReply.parsed.Error.Code
        /\ response.error.Message = upstreamReply.parsed.Error.Message
        /\ response.completion = ZeroCompletion

----------------------------------------------------------------------------
(* Route dispatch *)

\* The four routes of the proxy.
KnownRoute(r) ==
    \/ r.method = "GET" /\ r.path \in {ConfigPath, ModelsPath}
    \/ r.method = "POST" /\ r.path \in {ConfigPath, ChatPath}

\* C24: a request under /v1/ that is none of the four routes is answered 404
\* or 400, a request outside /v1/ is answered 404, and neither causes an
\* upstream call.
C24_RouteDispatch ==
    (request # NoRequest /\ ~KnownRoute(request)) =>
        /\ forwarded = 0
        /\ upstream = <<>>
        /\ pc = "done" =>
              IF HasPrefix(request.path, V1Prefix)
              THEN response.status \in {400, 404}
              ELSE response.status = 404

----------------------------------------------------------------------------
(* Runtime Configuration Store: invariant and frame *)

\* C25: after init the store has a non-empty endpoint and a non-empty model
\* id in every state, between the two words of an update too, and every
\* read of the model gives a non-empty string.
C25_StoreNonEmpty ==
    /\ Len(activeConfig.endpoint) > 0
    /\ activeConfig.model.len > 0
    /\ Len(activeConfig.model.data) > 0
    /\ Len(LoadModel) > 0

\* An update is between its two words, the store holding the one word of the
\* new model and the other of the old, while a request is being handled.
C25_Witness ==
    /\ cfg.pc \in {"storeLen", "storeData"}
    /\ activeConfig.model # Header(activeConfig.model.data)
    /\ pc \notin {"idle", "done"}

----------------------------------------------------------------------------
(* Request Rewriter: tools and tool choice *)

ToolsInit == ResponseInit

ToolsNext ==
    \/ \E t \in RequestTools, f \in RequestFunctions, c \in ToolChoices :
          ToolsParsed([Tools |-> t, Functions |-> f, ToolChoice |-> c])
    \/ HandleTools
    \/ MarshalTools
    \/ ToolsSent

ToolsSpec == ToolsInit /\ [][ToolsNext]_vars

\* What a tool choice is to become: nothing for nil, auto and none themselves,
\* auto for a structure whose type is "function", nothing for anything else.
ExpectedChoice(c) ==
    CASE c.kind = "nil" -> ""
      [] c.kind = "string" /\ c.str = "auto" -> "auto"
      [] c.kind = "string" /\ c.str = "none" -> "none"
      [] c.kind = "map" /\ c.type.kind = "string" /\ c.type.str = "function" -> "auto"
      [] OTHER -> ""

\* C26: convertToolChoice gives nothing for nil, auto and none for themselves,
\* auto for a structure of type "function" and nothing for every other value;
\* and the body sent upstream has a tool choice only when it has tools, the
\* request's own or its functions wrapped, and the converted choice is not
\* empty, and then it is the converted choice.
C26_ToolChoice ==
    /\ ConvertToolChoice(tl.chat.ToolChoice) = ExpectedChoice(tl.chat.ToolChoice)
    /\ tl.pc = "done" =>
          /\ tl.body.tool_choice.set =>
                /\ tl.body.tools.set
                /\ Len(tl.chat.Tools) > 0 \/ Len(tl.chat.Functions) > 0
                /\ ExpectedChoice(tl.chat.ToolChoice) # ""
                /\ tl.body.tool_choice.v = ExpectedChoice(tl.chat.ToolChoice)
          /\ tl.body.tools.set =>
                tl.body.tools.v = IF Len(tl.chat.Tools) > 0 THEN tl.chat.Tools
                                  ELSE WrapFunctions(tl.chat.Functions)

\* A request with functions only and a tool choice naming one of them.
C26_Witness ==
    /\ tl.pc = "done"
    /\ tl.chat.Tools = <<>>
    /\ tl.chat.Functions = <<"f", "g">>
    /\ tl.chat.ToolChoice = Choice("map", "", Value("string", "function"))
    /\ tl.body.tool_choice = [set |-> TRUE, v |-> "auto"]
    /\ Len(tl.body.tools.v) = 2

----------------------------------------------------------------------------
(* Configuration endpoints and authentication *)

C28_StoreFrame ==
    /\ [](/\ activeConfig.endpoint = openRouterEndpoint
          /\ activeConfig.apiKey = StartupKey)
    /\ [][activeConfig' # activeConfig =>
            /\ cfg.pc \in {"store", "storeLen", "storeData"}
            /\ cfg'.pc # cfg.pc
            /\ activeConfig'.endpoint = activeConfig.endpoint
            /\ activeConfig'.apiKey = activeConfig.apiKey
            /\ connVars' = connVars]_vars
    /\ [][connVars' # connVars => activeConfig' = activeConfig]_vars
    /\ [][cfg.pc \in {"idle", "done", "reply"} => activeConfig' = activeConfig]_vars

\* An update has changed the model of the store, a later one was refused,
\* and a streaming request is being relayed.
C28_Witness ==
    /\ cfg.last = GoogleModel
    /\ activeConfig.model = Header(GoogleModel)
    /\ activeConfig.endpoint = openRouterEndpoint
    /\ pc = "relay"
    /\ cfg.pc = "done"
    /\ cfg.status = 400
====
